---- MODULE Spec2Model ----
(***************************************************************************)
(* Model of test-stdin.py: a script that spawns `python3 -c test_code`     *)
(* with its three standard streams on pipes, feeds it test_stdin through   *)
(* Popen.communicate, and prints what it captured.                         *)
(*                                                                         *)
(* Three parties take steps: the script (parent), the child process, and   *)
(* the kernel pipes between them.  Text is a sequence of one-character     *)
(* strings, bytes are a sequence of integers; Encode/Decode convert.       *)
(* What `python3` resolves to is the environment's choice (env): a missing *)
(* executable, the interpreter running test_code, or another program.      *)
(***************************************************************************)
EXTENDS Integers, Sequences, FiniteSets, TLC

(* Capacity of a kernel pipe, in bytes (scaled down so that the script's   *)
(* nine input bytes and the child's output both exceed it).                *)
PipeCap == 3

----------------------------------------------------------------------------
(* Text and bytes *)

(* The printable ASCII characters in code order, 32 to 126 (the double      *)
(* quote, the backslash and the backtick are spelled out).                 *)
Ascii ==
    <<" ","!","quote","#","$","%","&","'","(",")","*","+",",","-",".","/","0",
      "1","2","3","4","5","6","7","8","9",":",";","<","=",">","?","@","A",
      "B","C","D","E","F","G","H","I","J","K","L","M","N","O","P","Q","R",
      "S","T","U","V","W","X","Y","Z","[","backslash","]","^","_","backtick","a","b","c",
      "d","e","f","g","h","i","j","k","l","m","n","o","p","q","r","s","t",
      "u","v","w","x","y","z","{","|","}","~">>

Chars == {Ascii[i] : i \in 1..Len(Ascii)} \cup {"\n"}

(* str.encode(): the UTF-8 code of each character (all of them ASCII).     *)
Ord == [c \in Chars |->
          IF c = "\n" THEN 10
          ELSE 31 + (CHOOSE i \in 1..Len(Ascii) : Ascii[i] = c)]

Encode(text) == [i \in 1..Len(text) |-> Ord[text[i]]]

(* bytes.decode(): strict UTF-8.  The bytes of this model are ASCII codes  *)
(* and the lone byte 255, which no UTF-8 sequence contains.                *)
IsUtf8(bytes) == \A i \in 1..Len(bytes) : bytes[i] < 128

Chr(b) == IF b = 10 THEN "\n" ELSE Ascii[b - 31]

Decode(bytes) == [i \in 1..Len(bytes) |-> Chr(bytes[i])]

(* An unbound name / None, and a bound value.                              *)
Unset == <<>>
Val(x) == <<x>>
Get(v) == v[1]

Min(a, b) == IF a < b THEN a ELSE b

IsPrefix(s, t) == Len(s) <= Len(t) /\ SubSeq(t, 1, Len(s)) = s

----------------------------------------------------------------------------
(* The script's constants *)

test_stdin ==
    <<"A","l","i","c","e","\n","2","5","\n">>

Prompt1 ==
    <<"E","n","t","e","r"," ","y","o","u","r"," ","n","a","m","e",":"," ">>

Prompt2 ==
    <<"E","n","t","e","r"," ","y","o","u","r"," ","a","g","e",":"," ">>

(* f"Hello {name}, you are {age} years old!" *)
Format(name, age) ==
    <<"H","e","l","l","o"," ">> \o name
      \o <<","," ","y","o","u"," ","a","r","e"," ">> \o age
      \o <<" ","y","e","a","r","s"," ","o","l","d","!">>

(* communicate(input=test_stdin.encode()) *)
Input == Encode(test_stdin)

----------------------------------------------------------------------------
(* The environment: what `python3` is when the script runs *)

ExitCodes == {0, 7}

(* What a program other than the interpreter may write before it exits.    *)
OtherOut == {<<>>, <<255>>, Encode(<<"o","k","a","y","\n">>)}
OtherErr == {<<>>, <<255>>, Encode(<<"n","o","\n">>)}

Envs ==
    {[kind |-> k, out |-> <<>>, err |-> <<>>, code |-> 0] :
        k \in {"missing", "script"}}
    \cup {[kind |-> "cat", out |-> <<>>, err |-> <<>>, code |-> c] :
        c \in ExitCodes}
    \cup {[kind |-> "other", out |-> o, err |-> e, code |-> c] :
        o \in OtherOut, e \in OtherErr, c \in ExitCodes}

(* The child's program, one instruction per blocking step.  "script" is    *)
(* test_code under a working interpreter; "cat" copies its input to its    *)
(* output line by line until end-of-input; "other" writes and exits        *)
(* without reading.                                                        *)
Program(e) ==
    CASE e.kind = "script" ->
           << [op |-> "write", fd |-> "stdout", data |-> Encode(Prompt1)],
              [op |-> "input"],
              [op |-> "write", fd |-> "stdout", data |-> Encode(Prompt2)],
              [op |-> "input"],
              [op |-> "greet"],
              [op |-> "exit", code |-> 0] >>
      [] e.kind = "cat" ->
           << [op |-> "echo"],
              [op |-> "exit", code |-> e.code] >>
      [] OTHER ->
           << [op |-> "write", fd |-> "stdout", data |-> e.out],
              [op |-> "write", fd |-> "stderr", data |-> e.err],
              [op |-> "exit", code |-> e.code] >>

(* The interpreter's report of an uncaught EOFError, and its exit status.  *)
EOFErrorText ==
    <<"E","O","F","E","r","r","o","r",":"," ","E","O","F"," ","w","h","e",
      "n"," ","r","e","a","d","i","n","g"," ","a"," ","l","i","n","e","\n">>

----------------------------------------------------------------------------
VARIABLES
    pc,        \* the script's position
    printed,   \* the lines the script has printed, one entry per print call
    error,     \* the exception that ended the script, "none" while none
    stdout,    \* the script's name stdout: Unset, or Val(bytes)
    stderr,    \* the script's name stderr: Unset, or Val(bytes)
    env,       \* what `python3` resolves to
    spawned,   \* how many child processes have been started
    proc,      \* the Popen object
    pipe,      \* the bytes in flight in each kernel pipe
    child,     \* the child process
    hist       \* history: what crossed each pipe end, in order

vars == <<pc, printed, error, stdout, stderr, env, spawned, proc, pipe, child, hist>>

Fds == {"stdin", "stdout", "stderr"}

NoProc ==
    [returncode |-> Unset, sel |-> {}, input_offset |-> 0,
     stdin_open |-> FALSE, out |-> <<>>, err |-> <<>>]

NoChild ==
    [ip |-> 0, rbuf |-> <<>>, lines |-> <<>>, wfd |-> "stdout",
     wbuf |-> <<>>, raised |-> FALSE, exit |-> Unset]

Init ==
    /\ pc = "header"
    /\ printed = <<>>
    /\ error = "none"
    /\ stdout = Unset
    /\ stderr = Unset
    /\ env \in Envs
    /\ spawned = 0
    /\ proc = NoProc
    /\ pipe = [fd \in Fds |-> <<>>]
    /\ child = NoChild
    /\ hist = [sent |-> <<>>, got |-> <<>>, out |-> <<>>, err |-> <<>>,
               eof |-> FALSE, epipe |-> FALSE]

ChildAlive == spawned > 0 /\ child.exit = Unset
ChildExited == spawned > 0 /\ child.exit # Unset

Free(fd) == PipeCap - Len(pipe[fd])

----------------------------------------------------------------------------
(* The child process *)

Instr == Program(env)[child.ip]

HasNewline(buf) == \E i \in 1..Len(buf) : buf[i] = 10

FirstNewline(buf) ==
    CHOOSE i \in 1..Len(buf) :
        buf[i] = 10 /\ \A j \in 1..(i - 1) : buf[j] # 10

(* Mutant: the newline is left on the line.                                *)
StripNewline_Keep(line) == line

(* input() returns the line without its trailing newline, decoded.         *)
StripNewline(line) ==
    IF Len(line) > 0 /\ line[Len(line)] = 10
    THEN SubSeq(line, 1, Len(line) - 1)
    ELSE line

(* The child is at an instruction, with no write of its own pending.       *)
ChildAt(ops) == ChildAlive /\ child.wbuf = <<>> /\ Instr.op \in ops

(* What the child does with one line read from its standard input.         *)
TakeLine(line, rest) ==
    IF Instr.op = "input"
    THEN child' = [child EXCEPT !.rbuf = rest,
                                !.lines = Append(@, Decode(StripNewline(line))),
                                !.ip = @ + 1]
    ELSE child' = [child EXCEPT !.rbuf = rest,
                                !.wfd = "stdout",
                                !.wbuf = line]

(* sys.stdout.write / print: the bytes are handed to a blocking write.     *)
ChildBeginWrite ==
    /\ ChildAt({"write", "greet"})
    /\ child' = [child EXCEPT
           !.wfd = IF Instr.op = "write" THEN Instr.fd ELSE "stdout",
           !.wbuf = IF Instr.op = "write" THEN Instr.data
                    ELSE Encode(Format(child.lines[1], child.lines[2])
                                  \o <<"\n">>),
           !.ip = @ + 1]
    /\ UNCHANGED <<pc, printed, error, stdout, stderr, env, spawned, proc,
                   pipe, hist>>

(* A blocking write moves as many bytes as the pipe has room for, and      *)
(* sleeps with the rest while the pipe is full.                            *)
ChildWrite ==
    /\ ChildAlive
    /\ child.wbuf # <<>>
    /\ \E k \in 1..Min(Free(child.wfd), Len(child.wbuf)) :
        LET moved == SubSeq(child.wbuf, 1, k) IN
        /\ pipe' = [pipe EXCEPT ![child.wfd] = @ \o moved]
        /\ child' = [child EXCEPT
               !.wbuf = SubSeq(@, k + 1, Len(@))]
        /\ hist' = IF child.wfd = "stdout"
                   THEN [hist EXCEPT !.out = @ \o moved]
                   ELSE [hist EXCEPT !.err = @ \o moved]
    /\ UNCHANGED <<pc, printed, error, stdout, stderr, env, spawned, proc>>

(* Reading a line with none buffered: read() takes what the pipe holds.    *)
ChildFill ==
    /\ ChildAt({"input", "echo"})
    /\ ~HasNewline(child.rbuf)
    /\ pipe["stdin"] # <<>>
    /\ child' = [child EXCEPT !.rbuf = @ \o pipe["stdin"]]
    /\ hist' = [hist EXCEPT !.got = @ \o pipe["stdin"]]
    /\ pipe' = [pipe EXCEPT !["stdin"] = <<>>]
    /\ UNCHANGED <<pc, printed, error, stdout, stderr, env, spawned, proc>>

(* A whole line is buffered: the read returns it.                          *)
ChildLine ==
    /\ ChildAt({"input", "echo"})
    /\ HasNewline(child.rbuf)
    /\ LET n == FirstNewline(child.rbuf) IN
         TakeLine(SubSeq(child.rbuf, 1, n),
                  SubSeq(child.rbuf, n + 1, Len(child.rbuf)))
    /\ UNCHANGED <<pc, printed, error, stdout, stderr, env, spawned, proc,
                   pipe, hist>>

(* The pipe is empty and its write end closed: read() returns no bytes.    *)
(* A buffered partial line is returned as the last line; with nothing      *)
(* buffered, input() raises EOFError (the interpreter reports it on        *)
(* standard error and exits with status 1) and the copy loop ends.         *)
ChildEOF ==
    /\ ChildAt({"input", "echo"})
    /\ ~HasNewline(child.rbuf)
    /\ pipe["stdin"] = <<>>
    /\ ~proc.stdin_open
    /\ IF child.rbuf # <<>>
       THEN TakeLine(child.rbuf, <<>>)
       ELSE IF Instr.op = "input"
       THEN child' = [child EXCEPT !.wfd = "stderr",
                                   !.wbuf = Encode(EOFErrorText),
                                   !.raised = TRUE,
                                   !.ip = Len(Program(env))]
       ELSE child' = [child EXCEPT !.ip = @ + 1]
    /\ hist' = [hist EXCEPT !.eof = TRUE]
    /\ UNCHANGED <<pc, printed, error, stdout, stderr, env, spawned, proc,
                   pipe>>

(* The process exits: its ends of the three pipes are closed with it.      *)
ChildExit ==
    /\ ChildAt({"exit"})
    /\ child' = [child EXCEPT
           !.exit = Val(IF child.raised THEN 1 ELSE Instr.code)]
    /\ UNCHANGED <<pc, printed, error, stdout, stderr, env, spawned, proc,
                   pipe, hist>>

ChildStep ==
    \/ ChildBeginWrite
    \/ ChildWrite
    \/ ChildFill
    \/ ChildLine
    \/ ChildEOF
    \/ ChildExit

----------------------------------------------------------------------------
(* The script *)

Say(lines) == printed' = printed \o lines

(* Lines 19-24: the banner, the code and the input.                        *)
Header ==
    << <<"Testing stdin support...">>,
       <<"Code to execute:">>,
       <<"test_code">>,
       <<"Input (stdin):">>,
       <<"repr", test_stdin>>,
       <<"--- Running executeCode ---">> >>

PrintHeader ==
    /\ pc = "header"
    /\ Say(Header)
    /\ pc' = "popen"
    /\ UNCHANGED <<error, stdout, stderr, env, spawned, proc, pipe, child,
                   hist>>

(* Mutant: a failed launch is swallowed and the script carries on.         *)
Popen_Swallow ==
    /\ pc = "popen"
    /\ IF env.kind = "missing"
       THEN /\ pc' = "print_exit"
            /\ UNCHANGED <<spawned, proc, child>>
       ELSE /\ spawned' = spawned + 1
            /\ proc' = [NoProc EXCEPT !.stdin_open = TRUE]
            /\ child' = [NoChild EXCEPT !.ip = 1]
            /\ pc' = "comm_start"
    /\ UNCHANGED <<printed, error, stdout, stderr, env, pipe, hist>>

(* Mutant: the child is started again after it has been started.           *)
Popen_Respawn ==
    /\ pc \in {"popen", "comm_start"}
    /\ env.kind # "missing"
    /\ spawned' = spawned + 1
    /\ proc' = [NoProc EXCEPT !.stdin_open = TRUE]
    /\ child' = [NoChild EXCEPT !.ip = 1]
    /\ pc' = "comm_start"
    /\ UNCHANGED <<printed, error, stdout, stderr, env, pipe, hist>>

(* Line 29: Popen([...], stdin=PIPE, stdout=PIPE, stderr=PIPE).  A name    *)
(* that resolves to no executable raises FileNotFoundError, which nothing  *)
(* in the script catches.                                                  *)
Popen ==
    /\ pc = "popen"
    /\ IF env.kind = "missing"
       THEN /\ error' = "FileNotFoundError"
            /\ pc' = "raised"
            /\ UNCHANGED <<spawned, proc, child>>
       ELSE /\ spawned' = spawned + 1
            /\ proc' = [NoProc EXCEPT !.stdin_open = TRUE]
            /\ child' = [NoChild EXCEPT !.ip = 1]
            /\ pc' = "comm_start"
            /\ UNCHANGED error
    /\ UNCHANGED <<printed, stdout, stderr, env, pipe, hist>>

(* Line 30, communicate(): with no input the write end is closed at once;  *)
(* otherwise it is registered for writing, beside the two read ends.       *)
CommStart ==
    /\ pc = "comm_start"
    /\ proc' = IF Input = <<>>
               THEN [proc EXCEPT !.stdin_open = FALSE,
                                 !.sel = {"stdout", "stderr"}]
               ELSE [proc EXCEPT !.sel = Fds]
    /\ pc' = "comm_loop"
    /\ UNCHANGED <<printed, error, stdout, stderr, env, spawned, pipe,
                   child, hist>>

(* Mutant: the output is read only after all the input has been written.   *)
ReadReady_AfterInput(fd) ==
    /\ fd \in proc.sel
    /\ "stdin" \notin proc.sel
    /\ (pipe[fd] # <<>> \/ ChildExited)

(* select(): a read end is ready when it holds bytes or its write end is   *)
(* closed; the write end is ready when there is room or its read end is    *)
(* closed.                                                                 *)
ReadReady(fd) == fd \in proc.sel /\ (pipe[fd] # <<>> \/ ChildExited)

WriteReady == "stdin" \in proc.sel /\ (Free("stdin") > 0 \/ ChildExited)

(* Mutant: every chunk is taken from the start of the input.               *)
Chunk_FromStart(off, k) == SubSeq(Input, 1, k)

(* input_view[offset : offset + k] *)
Chunk(off, k) == SubSeq(Input, off + 1, off + k)

(* Mutant: the write end is never closed after the last byte.              *)
StdinDone_Never(off) == FALSE

(* if self._input_offset >= len(self._input): unregister and close *)
StdinDone(off) == off >= Len(Input)

(* Mutant: the loop ends as soon as the child has exited.                  *)
LoopDone_ChildExited == ChildExited

(* while selector.get_map(): ... *)
LoopDone == proc.sel = {}

(* The write end is ready: os.write() of the next chunk.  With the read    *)
(* end closed it raises BrokenPipeError, which communicate() answers by    *)
(* closing the write end; it closes it too after the last byte.            *)
CommWriteStdin ==
    /\ pc = "comm_loop"
    /\ WriteReady
    /\ IF ChildExited
       THEN /\ proc' = [proc EXCEPT !.sel = @ \ {"stdin"},
                                    !.stdin_open = FALSE]
            /\ hist' = [hist EXCEPT !.epipe = TRUE]
            /\ UNCHANGED pipe
       ELSE \E k \in 1..Min(Free("stdin"), Len(Input) - proc.input_offset) :
            LET off == proc.input_offset + k IN
            /\ pipe' = [pipe EXCEPT
                   !["stdin"] = @ \o Chunk(proc.input_offset, k)]
            /\ hist' = [hist EXCEPT
                   !.sent = @ \o Chunk(proc.input_offset, k)]
            /\ proc' = [proc EXCEPT
                   !.input_offset = off,
                   !.sel = IF StdinDone(off) THEN @ \ {"stdin"} ELSE @,
                   !.stdin_open = ~StdinDone(off)]
    /\ UNCHANGED <<pc, printed, error, stdout, stderr, env, spawned, child>>

(* A read end is ready: os.read() returns what the pipe holds; no bytes    *)
(* mean end-of-file, and the read end is unregistered and closed.          *)
CommRead(fd) ==
    /\ pc = "comm_loop"
    /\ ReadReady(fd)
    /\ IF pipe[fd] = <<>>
       THEN proc' = [proc EXCEPT !.sel = @ \ {fd}]
       ELSE proc' = IF fd = "stdout"
                    THEN [proc EXCEPT !.out = @ \o pipe[fd]]
                    ELSE [proc EXCEPT !.err = @ \o pipe[fd]]
    /\ pipe' = [pipe EXCEPT ![fd] = <<>>]
    /\ UNCHANGED <<pc, printed, error, stdout, stderr, env, spawned, child,
                   hist>>

(* The selector is empty: wait() blocks until the child has exited and     *)
(* stores its exit status.                                                 *)
CommWait ==
    /\ pc = "comm_loop"
    /\ LoopDone
    /\ ChildExited
    /\ proc' = [proc EXCEPT !.returncode = child.exit]
    /\ pc' = "comm_return"
    /\ UNCHANGED <<printed, error, stdout, stderr, env, spawned, pipe,
                   child, hist>>

(* Mutant: a non-zero exit code is raised as an error.                     *)
CommReturn_Check ==
    /\ pc = "comm_return"
    /\ IF proc.returncode # Val(0)
       THEN /\ error' = "CalledProcessError"
            /\ pc' = "raised"
            /\ UNCHANGED <<stdout, stderr>>
       ELSE /\ stdout' = Val(proc.out)
            /\ stderr' = Val(proc.err)
            /\ pc' = "print_output_hdr"
            /\ UNCHANGED error
    /\ UNCHANGED <<printed, env, spawned, proc, pipe, child, hist>>

(* communicate() returns the joined chunks; line 30 binds them.            *)
CommReturn ==
    /\ pc = "comm_return"
    /\ stdout' = Val(proc.out)
    /\ stderr' = Val(proc.err)
    /\ pc' = "print_output_hdr"
    /\ UNCHANGED <<printed, error, env, spawned, proc, pipe, child, hist>>

(* Line 32 *)
PrintOutputHeader ==
    /\ pc = "print_output_hdr"
    /\ Say(<< <<"Output:">> >>)
    /\ pc' = "print_output"
    /\ UNCHANGED <<error, stdout, stderr, env, spawned, proc, pipe, child,
                   hist>>

(* print(b.decode()): bytes that are no UTF-8 raise UnicodeDecodeError.    *)
PrintDecoded(label, bytes, next) ==
    IF IsUtf8(bytes)
    THEN /\ Say(<< <<label, Decode(bytes)>> >>)
         /\ pc' = next
         /\ UNCHANGED error
    ELSE /\ error' = "UnicodeDecodeError"
         /\ pc' = "raised"
         /\ UNCHANGED printed

(* Line 33 *)
PrintOutput ==
    /\ pc = "print_output"
    /\ PrintDecoded("stdout", Get(stdout), "check_stderr")
    /\ UNCHANGED <<stdout, stderr, env, spawned, proc, pipe, child, hist>>

(* Mutant: the error section is printed when the exit code is not 0.       *)
HasErrors_OnFailure == proc.returncode # Val(0)

(* Line 35: if stderr *)
HasErrors == Get(stderr) # <<>>

(* Lines 35-36 *)
PrintErrorsHeader ==
    /\ pc = "check_stderr"
    /\ HasErrors
    /\ Say(<< <<"Errors:">> >>)
    /\ pc' = "print_errors"
    /\ UNCHANGED <<error, stdout, stderr, env, spawned, proc, pipe, child,
                   hist>>

(* Line 35, the branch not taken *)
SkipErrors ==
    /\ pc = "check_stderr"
    /\ ~HasErrors
    /\ pc' = "print_exit"
    /\ UNCHANGED <<printed, error, stdout, stderr, env, spawned, proc, pipe,
                   child, hist>>

(* Line 37 *)
PrintErrors ==
    /\ pc = "print_errors"
    /\ PrintDecoded("stderr", Get(stderr), "print_exit")
    /\ UNCHANGED <<stdout, stderr, env, spawned, proc, pipe, child, hist>>

(* Line 39 *)
PrintExit ==
    /\ pc = "print_exit"
    /\ Say(<< <<"Exit code:", proc.returncode>> >>)
    /\ pc' = "print_complete"
    /\ UNCHANGED <<error, stdout, stderr, env, spawned, proc, pipe, child,
                   hist>>

(* Line 40 *)
PrintComplete ==
    /\ pc = "print_complete"
    /\ Say(<< <<"Test complete">> >>)
    /\ pc' = "done"
    /\ UNCHANGED <<error, stdout, stderr, env, spawned, proc, pipe, child,
                   hist>>

ParentStep ==
    \/ PrintHeader
    \/ Popen
    \/ CommStart
    \/ CommWriteStdin
    \/ CommRead("stdout")
    \/ CommRead("stderr")
    \/ CommWait
    \/ CommReturn
    \/ PrintOutputHeader
    \/ PrintOutput
    \/ PrintErrorsHeader
    \/ SkipErrors
    \/ PrintErrors
    \/ PrintExit
    \/ PrintComplete

Next == ParentStep \/ ChildStep

Spec == Init /\ [][Next]_vars

(* The operating system schedules both processes: neither is starved       *)
(* while it has a step to take.                                            *)
FairSpec == Spec /\ WF_vars(ParentStep) /\ WF_vars(ChildStep)

----------------------------------------------------------------------------
(* Properties *)

(* communicate() has returned and line 30 has bound its result.            *)
Returned == stdout # Unset

InCommunicate == pc \in {"comm_start", "comm_loop", "comm_return"}

(* The text the script's last line tells the reader to look for.           *)
Greeting ==
    <<"H","e","l","l","o"," ","A","l","i","c","e",","," ","y","o","u"," ",
      "a","r","e"," ","2","5"," ","y","e","a","r","s"," ","o","l","d","!",
      "\n">>

(* C1, as stated: with test_code as the child and "Alice\n25\n" as input,  *)
(* the captured stdout is exactly "Hello Alice, you are 25 years old!\n"   *)
(* and the exit code is 0.                                                 *)
C1_ExactGreeting ==
    (env.kind = "script" /\ Returned) =>
        /\ Get(stdout) = Encode(Greeting)
        /\ proc.returncode = Val(0)

(* C1, amended: the captured stdout is the two prompts input() writes to   *)
(* standard output followed by the greeting line, and the exit code is 0.  *)
C1_RoundTrip ==
    (env.kind = "script" /\ Returned) =>
        /\ Get(stdout) = Encode(Prompt1 \o Prompt2 \o Greeting)
        /\ Get(stderr) = <<>>
        /\ proc.returncode = Val(0)

C1_Witness == env.kind = "script" /\ pc = "done"

(* The parent has input left to write and no descriptor it could service;  *)
(* the child has output left to write and no room to write it.             *)
MutualStall ==
    /\ pc = "comm_loop"
    /\ "stdin" \in proc.sel
    /\ ~ENABLED ParentStep
    /\ ChildAlive
    /\ child.wbuf # <<>>
    /\ ~ENABLED ChildStep

(* C2: with input and output both larger than a pipe, no interleaving      *)
(* reaches a state where the parent is stuck writing input while the child *)
(* is stuck writing output, and communicate() always comes to its end.     *)
C2_DeadlockFree ==
    /\ [](~MutualStall)
    /\ (pc = "comm_loop") ~> (pc = "comm_return")

(* Both pipes are full and both sides still have bytes to send.            *)
C2_Witness ==
    /\ pc = "comm_loop"
    /\ Len(Input) > PipeCap
    /\ Len(pipe["stdin"]) = PipeCap
    /\ proc.input_offset < Len(Input)
    /\ Len(pipe["stdout"]) = PipeCap
    /\ child.wbuf # <<>>
    /\ child.wfd = "stdout"

(* C3: once an existing executable is launched, and the child exits when   *)
(* it sees end-of-input, the script eventually holds a result with a       *)
(* defined exit code.                                                      *)
C3_Terminates ==
    (spawned > 0) ~> (Returned /\ proc.returncode # Unset)

(* A child that exits only after it has seen end-of-input has been waited  *)
(* for.                                                                    *)
C3_Witness ==
    /\ env.kind = "cat"
    /\ hist.eof
    /\ Returned
    /\ proc.returncode = Val(env.code)

(* C4: the exit code is defined only once the child has exited; what the   *)
(* script receives is everything the child wrote to each stream; nothing   *)
(* is bound while communicate() is still running.                          *)
C4_ResultComplete ==
    /\ proc.returncode # Unset => (ChildExited /\ proc.returncode = child.exit)
    /\ Returned =>
         /\ stderr # Unset
         /\ ChildExited
         /\ proc.returncode # Unset
         /\ Get(stdout) = hist.out
         /\ Get(stderr) = hist.err
    /\ (pc \in {"header", "popen"} \/ InCommunicate) =>
         (stdout = Unset /\ stderr = Unset)

(* The result holds more than one pipe's worth of output.                  *)
C4_Witness ==
    /\ Returned
    /\ Len(Get(stdout)) > PipeCap
    /\ Get(stderr) # <<>>

(* C5: a non-zero exit code is returned as data: communicate() returns     *)
(* without an error whatever the code, the only error after a launch is a  *)
(* failed decode (which does not look at the code), and a report that      *)
(* reaches its end shows the child's code on the exit-code line.           *)
C5_NonZeroIsData ==
    /\ Returned => proc.returncode = child.exit
    /\ pc = "print_output_hdr" => error = "none"
    /\ (spawned > 0 /\ error # "none") =>
         /\ error = "UnicodeDecodeError"
         /\ ~IsUtf8(Get(stdout)) \/ ~IsUtf8(Get(stderr))
    /\ (Returned /\ IsUtf8(Get(stdout)) /\ IsUtf8(Get(stderr))) =>
         pc # "raised"
    /\ pc = "done" =>
         printed[Len(printed) - 1] = <<"Exit code:", child.exit>>

C5_Witness == pc = "done" /\ child.exit = Val(7)

ReportLabels ==
    {"Output:", "stdout", "Errors:", "stderr", "Exit code:", "Test complete"}

Labels(lines) == [i \in 1..Len(lines) |-> lines[i][1]]

(* C6: when `python3` names no executable, Popen raises FileNotFoundError  *)
(* and the script ends there: no child, no result, no report line, and no  *)
(* further step.                                                           *)
C6_MissingExecutable ==
    env.kind = "missing" =>
        /\ pc \in {"header", "popen", "raised"}
        /\ spawned = 0
        /\ proc = NoProc
        /\ stdout = Unset /\ stderr = Unset
        /\ \A i \in 1..Len(printed) : printed[i][1] \notin ReportLabels
        /\ pc = "raised" => (error = "FileNotFoundError" /\ ~ENABLED Next)
        /\ pc # "raised" => error = "none"

C6_Witness == env.kind = "missing" /\ pc = "raised"

(* C7: what reaches the child's standard input is the input, in order,     *)
(* each byte once; the write end is closed after the last byte (or after a *)
(* broken pipe), the child sees end-of-input only after the whole input,   *)
(* and a child that has read the whole input and reads on finds the pipe   *)
(* closed.                                                                 *)
C7_InputDelivery ==
    /\ IsPrefix(hist.sent, Input)
    /\ hist.sent = SubSeq(Input, 1, proc.input_offset)
    /\ hist.got \o pipe["stdin"] = hist.sent
    /\ (spawned > 0 /\ pc # "comm_start" /\ ~proc.stdin_open /\ ~hist.epipe) =>
         hist.sent = Input
    /\ hist.eof => (hist.got = Input /\ ~proc.stdin_open)
    /\ (ChildAt({"input", "echo"}) /\ hist.got = Input) => ~proc.stdin_open

(* A child that reads to the end has read the whole input and then seen    *)
(* end-of-input.                                                           *)
C7_Witness ==
    /\ env.kind = "cat"
    /\ hist.eof
    /\ hist.got = Input
    /\ hist.out = Input
    /\ ChildExited

Lifecycle ==
    IF spawned = 0 THEN "Unstarted"
    ELSE IF proc.returncode = Unset THEN "Running"
    ELSE "Terminated"

(* The call (lines 29-30) is over: it returned or it raised.               *)
Ended == pc \notin {"header", "popen"} /\ ~InCommunicate

(* C9: a run moves only Unstarted -> Running -> Terminated, never back and *)
(* never past a state; at most one child is ever started; and a run that   *)
(* is over has either a result from its one child or one launch error.     *)
C9_Lifecycle ==
    [][ /\ <<Lifecycle, Lifecycle'>> \in
             { <<"Unstarted", "Unstarted">>, <<"Unstarted", "Running">>,
               <<"Running", "Running">>, <<"Running", "Terminated">>,
               <<"Terminated", "Terminated">> }
        /\ spawned' <= 1
        /\ child.exit # Unset => child'.exit = child.exit
        /\ Ended' =>
             \/ /\ Returned'
                /\ Lifecycle' = "Terminated"
                /\ error' \in {"none", "UnicodeDecodeError"}
             \/ /\ ~Returned'
                /\ Lifecycle' = "Unstarted"
                /\ error' = "FileNotFoundError"
      ]_vars

C9_Witness == Lifecycle = "Terminated" /\ pc = "done" /\ spawned = 1

(* The labels of a whole report for the captured error bytes.              *)
ReportOf(err) ==
    <<"Output:", "stdout">>
      \o (IF err # <<>> THEN <<"Errors:", "stderr">> ELSE <<>>)
      \o <<"Exit code:", "Test complete">>

(* What every run shares: nothing is reported before the child has exited  *)
(* and the result is bound, the lines come in the fixed order, the error   *)
(* section is there only for non-empty stderr, and each line shows what    *)
(* was captured.                                                           *)
ReportInOrder ==
    /\ Len(printed) > Len(Header) => (ChildExited /\ Returned)
    /\ IsPrefix(Header, printed) \/ IsPrefix(printed, Header)
    /\ Len(printed) > Len(Header) =>
         IsPrefix(SubSeq(Labels(printed), Len(Header) + 1, Len(printed)),
                  ReportOf(Get(stderr)))
    /\ \A i \in 1..Len(printed) :
         /\ printed[i][1] = "stdout" => printed[i][2] = Decode(Get(stdout))
         /\ printed[i][1] = "stderr" => printed[i][2] = Decode(Get(stderr))
         /\ printed[i][1] = "Exit code:" => printed[i][2] = child.exit

(* The script is over after a launch.                                      *)
Finished == spawned > 0 /\ pc \in {"done", "raised"}

WholeReport ==
    /\ pc = "done"
    /\ Labels(printed) = Labels(Header) \o ReportOf(Get(stderr))

====
